---- MODULE Spec2Model ----
(***************************************************************************)
(* A model of BizzInsight_pro: the SQLite store and the data-entry         *)
(* handlers that write it, the analytics queries that read it, the model   *)
(* persistence of the sales predictor, the ThreadSafeDB helper, the        *)
(* configuration manager, the dashboard's refresh threads and the retry    *)
(* and memoize decorators.                                                 *)
(***************************************************************************)
EXTENDS Integers, Sequences, FiniteSets, TLC

(***************************************************************************)
(* Bounds of the model.                                                    *)
(***************************************************************************)
MaxProductId == 1
MaxCustomerId == 1
MaxSales == 1
MaxStock == 2
QMaxProductId == 2
QMaxSales == 2
MaxLimit == 2

(***************************************************************************)
(* Values typed into the forms.                                            *)
(***************************************************************************)
StockInputs == {2}
QuantityInputs == {1}
AmountInputs == {5}
NameInputs == {"", "n"}

\* SQL NULL in an integer foreign-key column; rowids start at 1.
NULL == 0

\* The tables declared on Base.metadata.
AllTables == {"products", "customers", "sales", "employees", "inventory"}

VARIABLES
    dbFile,             \* business.db exists on disk
    tables,             \* the tables of business.db
    products,           \* products rows: id -> [stock]
    customers,          \* customers rows: the set of ids
    sales,              \* sales rows: id -> [customer_id, product_id, quantity, amount]
    session,            \* DataEntry.session is open (DataEntry constructed)
    current_record_id,  \* DataEntry.current_record_id, NULL for None
    lastOp,             \* the operation that ran last and how it ended
    connTables,         \* sqlite_master as seen through the last returned connection
    summary,            \* the record get_sales_summary returned last
    topProducts         \* the rows get_top_products returned last

dbVars == <<dbFile, tables, products, customers, sales, session,
            current_record_id, lastOp, connTables, summary, topProducts>>

VARIABLES
    mlRows,         \* the rows the join of prepare_data yields
    lrFile,         \* models/sales_lr_model.pkl exists
    rfFile,         \* models/sales_rf_model.pkl exists
    mlPc,           \* where the running predict_sales / train_models call is
    trainPc,        \* where train_models is
    foundAtCheck,   \* what os.path.exists(model_path) gave in predict_sales
    retrained       \* the running predict_sales call has run train_models

mlVars == <<mlRows, lrFile, rfFile, mlPc, trainPc, foundAtCheck, retrained>>

VARIABLES
    instance,       \* ThreadSafeDB._instance, NoObject for None
    objects,        \* how many ThreadSafeDB objects have been allocated
    assigned,       \* how many times _instance has been assigned
    wPc,            \* per worker thread: the statement it is at
    wObj,           \* per worker thread: the object its __new__ allocated
    wDb,            \* per worker thread: what ThreadSafeDB() returned to it
    cbCalls         \* per worker thread: the arguments callback was invoked with

thVars == <<instance, objects, assigned, wPc, wObj, wDb, cbCalls>>

VARIABLES
    cfg,            \* ConfigManager.config, an ApplicationConfig
    cfgFile,        \* the configuration file: absent, corrupt, or valid with its content
    lastCfgOp       \* the ConfigManager call that ran last, its arguments and result

cfgVars == <<cfg, cfgFile, lastCfgOp>>

VARIABLES
    uiPc,           \* the Dashboard: "none" before __init__, "idle" after it
    connOwner,      \* the thread that created calculator.conn
    autoRefresh,    \* auto_refresh_var
    kpiPc,          \* per update_kpis thread: the statement it is at
    connUses,       \* the queries issued: the thread issuing and the thread
                    \* that created the connection it was issued through
    kpiShown,       \* how many update_kpis threads have set the KPI labels
    lastDashOp      \* the Dashboard method that ran last on the UI thread

dashVars == <<uiPc, connOwner, autoRefresh, kpiPc, connUses, kpiShown, lastDashOp>>

VARIABLES
    rtMax,          \* retry: max_attempts
    rtDelay,        \* retry: delay
    rtBackoff,      \* retry: backoff_factor
    rtPc,           \* the wrapper: "idle", "loop", "after_loop", "returned", "raised"
    rtAttempt,      \* the loop variable attempt
    rtCalls,        \* how many times func was invoked in this call
    rtSleeps,       \* the time.sleep() durations of this call, in order
    rtOut           \* what came out of the call: the invocation it came from
                    \* and whether its exception was a listed one

retryVars == <<rtMax, rtDelay, rtBackoff, rtPc, rtAttempt, rtCalls, rtSleeps, rtOut>>

VARIABLES
    ttl,            \* memoize: ttl, NoTtl for None
    maxsize,        \* memoize: maxsize
    cache,          \* the dict cache: key -> (result, timestamp)
    cache_keys,     \* the list cache_keys
    now,            \* time.time()
    lastMemoOp      \* the memoized call that ran last

memoVars == <<ttl, maxsize, cache, cache_keys, now, lastMemoOp>>

\* What a step of one part of the program leaves alone.
OnlyStore == UNCHANGED <<mlVars, thVars, cfgVars, dashVars, retryVars, memoVars>>
OnlyPredictor == UNCHANGED <<dbVars, thVars, cfgVars, dashVars, retryVars, memoVars>>
OnlyWorkers == UNCHANGED <<dbVars, mlVars, cfgVars, dashVars, retryVars, memoVars>>
OnlyManager == UNCHANGED <<dbVars, mlVars, thVars, dashVars, retryVars, memoVars>>
OnlyDashboard == UNCHANGED <<dbVars, mlVars, thVars, cfgVars, retryVars, memoVars>>
OnlyRetry == UNCHANGED <<dbVars, mlVars, thVars, cfgVars, dashVars, memoVars>>
OnlyMemo == UNCHANGED <<dbVars, mlVars, thVars, cfgVars, dashVars, retryVars>>

(***************************************************************************)
(* Helpers over rows.                                                      *)
(***************************************************************************)
Max(a, b) == IF a >= b THEN a ELSE b
Min(a, b) == IF a <= b THEN a ELSE b

RECURSIVE SetMax(_)
SetMax(S) == IF S = {} THEN 0
             ELSE LET x == CHOOSE y \in S : TRUE IN Max(x, SetMax(S \ {x}))

\* SQLite rowid allocation for INTEGER PRIMARY KEY: one more than the largest
\* rowid in the table, 1 for an empty table.
NewRowId(ids) == SetMax(ids) + 1

ProductIds == DOMAIN products
SaleIds == DOMAIN sales

\* f without the row with key k
Without(f, k) == [x \in (DOMAIN f) \ {k} |-> f[x]]
\* f with row k set to v
With(f, k, v) == [x \in (DOMAIN f) \cup {k} |-> IF x = k THEN v ELSE f[x]]

NoRows == [x \in {} |-> 0]

NoSummary == [valid |-> FALSE, total_transactions |-> 0,
              total_revenue |-> [null |-> TRUE, val |-> 0]]

Op(name, ok) == [op |-> name, ok |-> ok]

\* No query result is held after an operation that returns none.
ClearResults ==
    /\ connTables' = {}
    /\ summary' = NoSummary
    /\ topProducts' = <<>>

(***************************************************************************)
(* database/db_connection.py                                               *)
(***************************************************************************)
\* Base.metadata.create_all(engine): every declared table that is missing is
\* created (checkfirst); tables that exist are left as they are.
MetadataCreateAll(ts) == ts \cup AllTables

\* The body of create_database(): the file is created by the first connect,
\* the tables by create_all, the indexes by CREATE INDEX IF NOT EXISTS. No
\* statement of it touches a row.
CreateDatabaseEffect ==
    /\ dbFile' = TRUE
    /\ tables' = MetadataCreateAll(tables)
    /\ UNCHANGED <<products, customers, sales>>

\* A variant that recreates the tables, losing their rows.
create_database_Recreate ==
    /\ dbFile' = TRUE
    /\ tables' = MetadataCreateAll(tables)
    /\ products' = NoRows
    /\ customers' = {}
    /\ sales' = NoRows
    /\ lastOp' = Op("create_database", TRUE)
    /\ ClearResults
    /\ UNCHANGED <<session, current_record_id>>
    /\ OnlyStore

create_database ==
    /\ CreateDatabaseEffect
    /\ lastOp' = Op("create_database", TRUE)
    /\ ClearResults
    /\ UNCHANGED <<session, current_record_id>>
    /\ OnlyStore

\* get_sqlite_connection(): sqlite3.connect(DB_PATH) opens the file as it
\* is, and creates an empty database when there is none. connTables is what
\* SELECT name FROM sqlite_master WHERE type='table' returns through it.
ConnectTables(ts) == ts

get_sqlite_connection ==
    /\ dbFile' = TRUE
    /\ tables' = ConnectTables(tables)
    /\ connTables' = tables'
    /\ summary' = NoSummary
    /\ topProducts' = <<>>
    /\ lastOp' = Op("get_sqlite_connection", TRUE)
    /\ UNCHANGED <<products, customers, sales, session, current_record_id>>
    /\ OnlyStore

(***************************************************************************)
(* ui/data_entry.py: DataEntry                                             *)
(***************************************************************************)
\* DataEntry.__init__: self.session = get_session(), which runs
\* create_database(); current_record_id = None.
DataEntry_init ==
    /\ session = FALSE
    /\ CreateDatabaseEffect
    /\ session' = TRUE
    /\ current_record_id' = NULL
    /\ lastOp' = Op("DataEntry_init", TRUE)
    /\ ClearResults
    /\ OnlyStore

\* on_product_select / on_customer_select / on_sale_select: the id of the row
\* picked in the entity's table goes into the one shared current_record_id.
\* Each table view is reloaded by every handler that writes its entity, so the
\* ids on offer are the ids in the table.
on_select(ids, name) ==
    /\ session
    /\ \E id \in ids :
          current_record_id' = id
    /\ lastOp' = Op(name, TRUE)
    /\ ClearResults
    /\ UNCHANGED <<dbFile, tables, products, customers, sales, session>>
    /\ OnlyStore

on_product_select == on_select(ProductIds, "on_product_select")
on_customer_select == on_select(customers, "on_customer_select")
on_sale_select == on_select(SaleIds, "on_sale_select")

\* save_product: an empty name returns after the warning; a field that does
\* not parse as a number raises and is rolled back; otherwise the row is
\* inserted. clear_product_form resets current_record_id.
save_product ==
    /\ session
    /\ \E name \in NameInputs, stock \in StockInputs, parses \in BOOLEAN :
          IF name = ""
          THEN /\ lastOp' = Op("save_product", FALSE)
               /\ UNCHANGED <<products, current_record_id>>
          ELSE IF ~parses
          THEN /\ lastOp' = Op("save_product", FALSE)
               /\ UNCHANGED <<products, current_record_id>>
          ELSE /\ NewRowId(ProductIds) <= MaxProductId
               /\ products' = With(products, NewRowId(ProductIds), [stock |-> stock])
               /\ current_record_id' = NULL
               /\ lastOp' = Op("save_product", TRUE)
    /\ ClearResults
    /\ UNCHANGED <<dbFile, tables, customers, sales, session>>
    /\ OnlyStore

\* save_customer: as save_product; the join date must parse.
save_customer ==
    /\ session
    /\ \E name \in NameInputs, parses \in BOOLEAN :
          IF name = "" \/ ~parses
          THEN /\ lastOp' = Op("save_customer", FALSE)
               /\ UNCHANGED <<customers, current_record_id>>
          ELSE /\ NewRowId(customers) <= MaxCustomerId
               /\ customers' = customers \cup {NewRowId(customers)}
               /\ current_record_id' = NULL
               /\ lastOp' = Op("save_customer", TRUE)
    /\ ClearResults
    /\ UNCHANGED <<dbFile, tables, products, sales, session>>
    /\ OnlyStore

\* session.delete(parent) on a one-to-many relationship without a delete
\* cascade: the unit of work sets the foreign key of the parent's sales to
\* NULL before it deletes the parent. The sales rows stay.
NullifyProduct(rows, id) ==
    [s \in DOMAIN rows |->
        IF rows[s].product_id = id THEN [rows[s] EXCEPT !.product_id = NULL] ELSE rows[s]]
NullifyCustomer(rows, id) ==
    [s \in DOMAIN rows |->
        IF rows[s].customer_id = id THEN [rows[s] EXCEPT !.customer_id = NULL] ELSE rows[s]]

\* delete_product: query(Product).get(current_record_id); when there is no
\* such product, product.name raises and the handler rolls back.
delete_product ==
    /\ session
    /\ current_record_id # NULL
    /\ IF current_record_id \in ProductIds
       THEN /\ sales' = NullifyProduct(sales, current_record_id)
            /\ products' = Without(products, current_record_id)
            /\ current_record_id' = NULL
            /\ lastOp' = Op("delete_product", TRUE)
       ELSE /\ lastOp' = Op("delete_product", FALSE)
            /\ UNCHANGED <<sales, products, current_record_id>>
    /\ ClearResults
    /\ UNCHANGED <<dbFile, tables, customers, session>>
    /\ OnlyStore

\* delete_customer
delete_customer ==
    /\ session
    /\ current_record_id # NULL
    /\ IF current_record_id \in customers
       THEN /\ sales' = NullifyCustomer(sales, current_record_id)
            /\ customers' = customers \ {current_record_id}
            /\ current_record_id' = NULL
            /\ lastOp' = Op("delete_customer", TRUE)
       ELSE /\ lastOp' = Op("delete_customer", FALSE)
            /\ UNCHANGED <<sales, customers, current_record_id>>
    /\ ClearResults
    /\ UNCHANGED <<dbFile, tables, products, session>>
    /\ OnlyStore

\* The sale row save_sale builds from the form.
SaleRow(cid, pid, qty, amt) ==
    [customer_id |-> cid, product_id |-> pid, quantity |-> qty, amount |-> amt]

\* The ways one run of save_sale can go: "parse" is a ValueError raised while
\* the ids, the date or the numbers are read, before session.add; "commit1" and
\* "commit2" are the two session.commit() calls raising (the database is
\* locked by another connection).
SaleFailures == {"none", "parse", "commit1", "commit2"}

\* save_sale: the ids are whatever precedes ':' in the two editable combo
\* boxes. The sale is committed first; the stock decrement is a second
\* transaction, made only when the product exists. SQLite enforces no foreign
\* key unless PRAGMA foreign_keys is set, and nothing sets it.
save_sale ==
    /\ session
    /\ \E cid \in 0..MaxCustomerId, pid \in 0..MaxProductId, qty \in QuantityInputs,
          amt \in AmountInputs, fails \in SaleFailures :
          LET id == NewRowId(SaleIds) IN
          IF cid = 0 \/ pid = 0
          THEN \* an empty combo box: warning and return
               /\ lastOp' = Op("save_sale", FALSE)
               /\ UNCHANGED <<sales, products, current_record_id>>
          ELSE IF fails \in {"parse", "commit1"}
          THEN /\ lastOp' = Op("save_sale", FALSE)
               /\ UNCHANGED <<sales, products, current_record_id>>
          ELSE /\ id <= MaxSales
               /\ sales' = With(sales, id, SaleRow(cid, pid, qty, amt))
               /\ IF pid \in ProductIds /\ fails = "none"
                  THEN products' = [products EXCEPT ![pid].stock = @ - qty]
                  ELSE UNCHANGED products
               /\ IF pid \in ProductIds /\ fails = "commit2"
                  THEN /\ lastOp' = Op("save_sale", FALSE)
                       /\ UNCHANGED current_record_id
                  ELSE /\ lastOp' = Op("save_sale", TRUE)
                       /\ current_record_id' = NULL
    /\ ClearResults
    /\ UNCHANGED <<dbFile, tables, customers, session>>
    /\ OnlyStore

\* delete_sale: the stock of the sale's product, when it exists, is restored
\* and the row deleted in one transaction.
delete_sale ==
    /\ session
    /\ current_record_id # NULL
    /\ IF current_record_id \in SaleIds
       THEN LET sale == sales[current_record_id] IN
            /\ IF sale.product_id \in ProductIds
               THEN /\ products[sale.product_id].stock + sale.quantity <= MaxStock
                    /\ products' = [products EXCEPT ![sale.product_id].stock = @ + sale.quantity]
               ELSE UNCHANGED products
            /\ sales' = Without(sales, current_record_id)
            /\ current_record_id' = NULL
            /\ lastOp' = Op("delete_sale", TRUE)
       ELSE /\ lastOp' = Op("delete_sale", FALSE)
            /\ UNCHANGED <<sales, products, current_record_id>>
    /\ ClearResults
    /\ UNCHANGED <<dbFile, tables, customers, session>>
    /\ OnlyStore

\* delete_test_data: bulk DELETE of sales, customers, products (and employees,
\* whose rows no handler below reads) in one transaction; no form is cleared.
delete_test_data ==
    /\ session
    /\ sales' = NoRows
    /\ customers' = {}
    /\ products' = NoRows
    /\ lastOp' = Op("delete_test_data", TRUE)
    /\ ClearResults
    /\ UNCHANGED <<dbFile, tables, session, current_record_id>>
    /\ OnlyStore

(***************************************************************************)
(* data_processing/calculations.py: BusinessCalculations                   *)
(***************************************************************************)
RECURSIVE SumAmount(_, _)
\* the sum of rows[s].amount over s in S
SumAmount(rows, S) ==
    IF S = {} THEN 0
    ELSE LET x == CHOOSE y \in S : TRUE
         IN rows[x].amount + SumAmount(rows, S \ {x})

RECURSIVE SumQuantity(_, _)
SumQuantity(rows, S) ==
    IF S = {} THEN 0
    ELSE LET x == CHOOSE y \in S : TRUE
         IN rows[x].quantity + SumQuantity(rows, S \ {x})

\* SQL SUM(amount) over the rows S: NULL over no rows. pandas hands a NULL
\* of a one-row result back as None.
SqlSum(rows, S) ==
    IF S = {} THEN [null |-> TRUE, val |-> 0]
    ELSE [null |-> FALSE, val |-> SumAmount(rows, S)]

\* get_sales_summary(): the one record of
\* SELECT COUNT(*), SUM(amount), ... FROM sales
SalesSummary(rows) ==
    [valid |-> TRUE,
     total_transactions |-> Cardinality(DOMAIN rows),
     total_revenue |-> SqlSum(rows, DOMAIN rows)]

get_sales_summary ==
    /\ dbFile
    /\ IF "sales" \in tables
       THEN /\ summary' = SalesSummary(sales)
            /\ lastOp' = Op("get_sales_summary", TRUE)
       ELSE \* no such table: read_sql_query raises
            /\ summary' = NoSummary
            /\ lastOp' = Op("get_sales_summary", FALSE)
    /\ connTables' = {}
    /\ topProducts' = <<>>
    /\ UNCHANGED <<dbFile, tables, products, customers, sales, session,
                   current_record_id>>
    /\ OnlyStore

\* The sales of product p that FROM sales s JOIN products p ON s.product_id = p.id
\* yields: a sale without an existing product yields no row.
SalesOf(rows, p) == {s \in DOMAIN rows : rows[s].product_id = p}

\* GROUP BY p.id: one group per product that has a joined sale
GroupRow(rows, p) ==
    [id |-> p,
     total_quantity |-> SumQuantity(rows, SalesOf(rows, p)),
     total_revenue |-> SumAmount(rows, SalesOf(rows, p)),
     transactions |-> Cardinality(SalesOf(rows, p))]

RECURSIVE Groups(_, _, _)
\* the groups of the products with id >= from, in id order
Groups(rows, prods, from) ==
    IF from > SetMax(DOMAIN prods) THEN <<>>
    ELSE (IF from \in DOMAIN prods /\ SalesOf(rows, from) # {}
          THEN <<GroupRow(rows, from)>> ELSE <<>>)
         \o Groups(rows, prods, from + 1)

RECURSIVE InsertDesc(_, _)
\* row put into the sequence seq, sorted by total_revenue descending, behind
\* every row whose total_revenue is not smaller
InsertDesc(row, seq) ==
    IF seq = <<>> THEN <<row>>
    ELSE IF Head(seq).total_revenue >= row.total_revenue
         THEN <<Head(seq)>> \o InsertDesc(row, Tail(seq))
         ELSE <<row>> \o seq

\* A variant that leaves the groups in GROUP BY order.
OrderByRevenueDesc_Unsorted(seq) == seq

RECURSIVE OrderByRevenueDesc(_)
\* ORDER BY total_revenue DESC
OrderByRevenueDesc(seq) ==
    IF seq = <<>> THEN <<>>
    ELSE InsertDesc(seq[Len(seq)], OrderByRevenueDesc(SubSeq(seq, 1, Len(seq) - 1)))

\* LIMIT n: the first n rows; SQLite takes a negative n as no limit
SqlLimit(seq, n) == IF n < 0 THEN seq ELSE SubSeq(seq, 1, Min(n, Len(seq)))

\* get_top_products(limit)
TopProducts(rows, prods, limit) ==
    SqlLimit(OrderByRevenueDesc(Groups(rows, prods, 1)), limit)

get_top_products ==
    /\ dbFile
    /\ {"sales", "products"} \subseteq tables
    /\ \E limit \in 0..MaxLimit :
          /\ topProducts' = TopProducts(sales, products, limit)
          /\ lastOp' = [op |-> "get_top_products", ok |-> TRUE, limit |-> limit]
    /\ connTables' = {}
    /\ summary' = NoSummary
    /\ UNCHANGED <<dbFile, tables, products, customers, sales, session,
                   current_record_id>>
    /\ OnlyStore

(***************************************************************************)
(* The store, its data-entry handlers and its queries.                     *)
(***************************************************************************)
InitDB ==
    /\ dbFile = FALSE
    /\ tables = {}
    /\ products = NoRows
    /\ customers = {}
    /\ sales = NoRows
    /\ session = FALSE
    /\ current_record_id = NULL
    /\ lastOp = Op("init", TRUE)
    /\ connTables = {}
    /\ summary = NoSummary
    /\ topProducts = <<>>

NextDB ==
    \/ create_database
    \/ get_sqlite_connection
    \/ DataEntry_init
    \/ on_product_select
    \/ on_customer_select
    \/ on_sale_select
    \/ save_product
    \/ save_customer
    \/ delete_product
    \/ delete_customer
    \/ save_sale
    \/ delete_sale
    \/ delete_test_data

(***************************************************************************)
(* The analytics queries over every content of the tables: any row can be  *)
(* in sales, since save_sale stores the ids it is given.                   *)
(***************************************************************************)
QueryAmounts == {5, 10}

QuerySaleRows ==
    {SaleRow(1, pid, 1, amt) : pid \in 0..QMaxProductId, amt \in QueryAmounts}

QueryProducts ==
    UNION {[ids -> {[stock |-> 2]}] : ids \in SUBSET (1..QMaxProductId)}

QuerySales ==
    UNION {[1..n -> QuerySaleRows] : n \in 0..QMaxSales}

InitQueries ==
    /\ dbFile = TRUE
    /\ tables = AllTables
    /\ products \in QueryProducts
    /\ customers = {1}
    /\ sales \in QuerySales
    /\ session = FALSE
    /\ current_record_id = NULL
    /\ lastOp = Op("init", TRUE)
    /\ connTables = {}
    /\ summary = NoSummary
    /\ topProducts = <<>>

NextQueries ==
    \/ get_sales_summary
    \/ get_top_products

(***************************************************************************)
(* ml/train.py: SalesPredictor                                             *)
(***************************************************************************)
MaxJoinedRows == 10

\* rolling(window=7)
RollingWindow == 7
\* test_size=0.2, in percent
TestSizePercent == 20

\* prepare_data(): dropna() removes the rows without a full rolling window
\* before them, the first RollingWindow rows in date order.
PreparedRows(joined) == Max(0, joined - RollingWindow)

\* train_test_split(X, y, test_size=0.2): n_test = ceil(test_size * n) and
\* n_train = n - n_test; it raises ValueError when n_train is 0.
TestRows(n) == (n * TestSizePercent + 99) \div 100
TrainRows(n) == n - TestRows(n)

MlIdle == mlPc \in {"idle", "p_returned", "p_raised"}

\* predict_sales, up to the decision on os.path.exists(model_path)
predict_sales_call ==
    /\ MlIdle
    /\ foundAtCheck' = rfFile
    /\ IF rfFile
       THEN /\ mlPc' = "p_load"
            /\ trainPc' = "none"
            /\ retrained' = FALSE
       ELSE /\ mlPc' = "p_train"
            /\ trainPc' = "fit"
            /\ retrained' = TRUE
    /\ UNCHANGED <<mlRows, lrFile, rfFile>>
    /\ OnlyPredictor

\* train_models called on its own (tests/test_ml.py)
train_models_call ==
    /\ MlIdle
    /\ mlPc' = "t_direct"
    /\ trainPc' = "fit"
    /\ foundAtCheck' = FALSE
    /\ retrained' = FALSE
    /\ UNCHANGED <<mlRows, lrFile, rfFile>>
    /\ OnlyPredictor

\* train_models: prepare_data, train_test_split, fit and evaluate
train_fit ==
    /\ trainPc = "fit"
    /\ trainPc' = IF TrainRows(PreparedRows(mlRows)) = 0 THEN "raised" ELSE "save_lr"
    /\ UNCHANGED <<mlRows, lrFile, rfFile, mlPc, foundAtCheck, retrained>>
    /\ OnlyPredictor

\* train_models: open(sales_lr_model.pkl, 'wb') and pickle.dump; open can
\* raise OSError
train_save_lr ==
    /\ trainPc = "save_lr"
    /\ \E written \in BOOLEAN :
          IF written
          THEN lrFile' = TRUE /\ trainPc' = "save_rf"
          ELSE UNCHANGED lrFile /\ trainPc' = "raised"
    /\ UNCHANGED <<mlRows, rfFile, mlPc, foundAtCheck, retrained>>
    /\ OnlyPredictor

\* train_models: open(sales_rf_model.pkl, 'wb') and pickle.dump
train_save_rf ==
    /\ trainPc = "save_rf"
    /\ \E written \in BOOLEAN :
          IF written
          THEN rfFile' = TRUE /\ trainPc' = "returned"
          ELSE UNCHANGED rfFile /\ trainPc' = "raised"
    /\ UNCHANGED <<mlRows, lrFile, mlPc, foundAtCheck, retrained>>
    /\ OnlyPredictor

\* A variant of predict_sales that carries on after a failed training.
train_models_end_Swallow ==
    /\ mlPc \in {"p_train", "t_direct"}
    /\ trainPc \in {"returned", "raised"}
    /\ mlPc' = IF mlPc = "t_direct" THEN "idle" ELSE "p_load"
    /\ UNCHANGED <<mlRows, lrFile, rfFile, trainPc, foundAtCheck, retrained>>
    /\ OnlyPredictor

\* train_models ends: predict_sales goes on to open the file when it
\* returned; an exception of train_models leaves predict_sales at once.
train_models_end ==
    /\ mlPc \in {"p_train", "t_direct"}
    /\ trainPc \in {"returned", "raised"}
    /\ mlPc' = IF mlPc = "t_direct" THEN "idle"
               ELSE IF trainPc = "returned" THEN "p_load" ELSE "p_raised"
    /\ UNCHANGED <<mlRows, lrFile, rfFile, trainPc, foundAtCheck, retrained>>
    /\ OnlyPredictor

\* predict_sales: open(model_path, 'rb') and pickle.load; FileNotFoundError
\* when there is no file
predict_load ==
    /\ mlPc = "p_load"
    /\ mlPc' = IF rfFile THEN "p_predict" ELSE "p_raised"
    /\ UNCHANGED <<mlRows, lrFile, rfFile, trainPc, foundAtCheck, retrained>>
    /\ OnlyPredictor

\* predict_sales: model.predict(input_data), which raises on input of the
\* wrong shape, and return
predict_run ==
    /\ mlPc = "p_predict"
    /\ \E fits \in BOOLEAN :
          mlPc' = IF fits THEN "p_returned" ELSE "p_raised"
    /\ UNCHANGED <<mlRows, lrFile, rfFile, trainPc, foundAtCheck, retrained>>
    /\ OnlyPredictor

\* SalesPredictor.__init__ on any database and any models directory
InitML ==
    /\ mlRows \in 0..MaxJoinedRows
    /\ lrFile \in BOOLEAN
    /\ rfFile \in BOOLEAN
    /\ mlPc = "idle"
    /\ trainPc = "none"
    /\ foundAtCheck = FALSE
    /\ retrained = FALSE

\* no SalesPredictor
QuietML ==
    /\ mlRows = 0
    /\ lrFile = FALSE
    /\ rfFile = FALSE
    /\ mlPc = "idle"
    /\ trainPc = "none"
    /\ foundAtCheck = FALSE
    /\ retrained = FALSE

NextML ==
    \/ predict_sales_call
    \/ train_models_call
    \/ train_fit
    \/ train_save_lr
    \/ train_save_rf
    \/ train_models_end
    \/ predict_load
    \/ predict_run

(***************************************************************************)
(* utils/db_thread.py: ThreadSafeDB.__new__ and run_db_query_in_thread     *)
(***************************************************************************)
NumThreads == 2
Threads == 1..NumThreads

\* None
NoObject == 0

\* run_db_query_in_thread: threading.Thread(target=worker).start(); the
\* worker's first statement is db = ThreadSafeDB()
run_db_query_in_thread(t) ==
    /\ wPc[t] = "unstarted"
    /\ wPc' = [wPc EXCEPT ![t] = "new_check"]
    /\ UNCHANGED <<instance, objects, assigned, wObj, wDb, cbCalls>>
    /\ OnlyWorkers

\* __new__: if cls._instance is None. _lock is never acquired, so every
\* statement below interleaves with the other threads'.
new_check(t) ==
    /\ wPc[t] = "new_check"
    /\ wPc' = [wPc EXCEPT ![t] = IF instance = NoObject THEN "new_construct" ELSE "new_return"]
    /\ UNCHANGED <<instance, objects, assigned, wObj, wDb, cbCalls>>
    /\ OnlyWorkers

\* __new__: super(ThreadSafeDB, cls).__new__(cls)
new_construct(t) ==
    /\ wPc[t] = "new_construct"
    /\ objects' = objects + 1
    /\ wObj' = [wObj EXCEPT ![t] = objects + 1]
    /\ wPc' = [wPc EXCEPT ![t] = "new_assign"]
    /\ UNCHANGED <<instance, assigned, wDb, cbCalls>>
    /\ OnlyWorkers

\* __new__: cls._instance = <the new object>
new_assign(t) ==
    /\ wPc[t] = "new_assign"
    /\ instance' = wObj[t]
    /\ assigned' = assigned + 1
    /\ wPc' = [wPc EXCEPT ![t] = "new_return"]
    /\ UNCHANGED <<objects, wObj, wDb, cbCalls>>
    /\ OnlyWorkers

\* __new__: return cls._instance
new_return(t) ==
    /\ wPc[t] = "new_return"
    /\ wDb' = [wDb EXCEPT ![t] = instance]
    /\ wPc' = [wPc EXCEPT ![t] = "query"]
    /\ UNCHANGED <<instance, objects, assigned, wObj, cbCalls>>
    /\ OnlyWorkers

\* worker: result = query_func(db, *args), which returns or raises
worker_query(t) ==
    /\ wPc[t] = "query"
    /\ \E raises \in BOOLEAN :
          wPc' = [wPc EXCEPT ![t] = IF raises THEN "except" ELSE "callback"]
    /\ UNCHANGED <<instance, objects, assigned, wObj, wDb, cbCalls>>
    /\ OnlyWorkers

\* worker: callback(result), inside the try block: an exception of the
\* callback is caught by the same except clause
worker_callback(t) ==
    /\ wPc[t] = "callback"
    /\ cbCalls' = [cbCalls EXCEPT ![t] = Append(@, "result")]
    /\ \E raises \in BOOLEAN :
          wPc' = [wPc EXCEPT ![t] = IF raises THEN "except" ELSE "done"]
    /\ UNCHANGED <<instance, objects, assigned, wObj, wDb>>
    /\ OnlyWorkers

\* worker: except Exception: print(...); callback(None); an exception of
\* this call ends the thread
worker_except(t) ==
    /\ wPc[t] = "except"
    /\ cbCalls' = [cbCalls EXCEPT ![t] = Append(@, "None")]
    /\ \E raises \in BOOLEAN :
          wPc' = [wPc EXCEPT ![t] = IF raises THEN "died" ELSE "done"]
    /\ UNCHANGED <<instance, objects, assigned, wObj, wDb>>
    /\ OnlyWorkers

InitThreads ==
    /\ instance = NoObject
    /\ objects = 0
    /\ assigned = 0
    /\ wPc = [t \in Threads |-> "unstarted"]
    /\ wObj = [t \in Threads |-> NoObject]
    /\ wDb = [t \in Threads |-> NoObject]
    /\ cbCalls = [t \in Threads |-> <<>>]

NextThreads ==
    \E t \in Threads :
        \/ run_db_query_in_thread(t)
        \/ new_check(t)
        \/ new_construct(t)
        \/ new_assign(t)
        \/ new_return(t)
        \/ worker_query(t)
        \/ worker_callback(t)
        \/ worker_except(t)

(***************************************************************************)
(* utils/config.py: ApplicationConfig and ConfigManager                    *)
(*                                                                         *)
(* A string is the sequence of its pieces; a path is absolute when its     *)
(* first piece is "/". Of the sections, database (path) and ui (theme)     *)
(* are kept, and app_name of the top-level fields; database.path stands    *)
(* for the five path-valued keys __post_init__ rewrites, ui.theme for the  *)
(* keys it leaves alone.                                                   *)
(***************************************************************************)
Str(pieces) == [kind |-> "str", s |-> pieces]
IntVal(pieces) == [kind |-> "int", s |-> pieces]

\* ConfigManager.base_dir
BaseDir == Str(<<"/", "app">>)

\* os.path.isabs
IsAbs(v) == Len(v.s) > 0 /\ v.s[1] = "/"

\* os.path.join(base, v) for a base that does not end in a separator: v
\* itself when v is absolute, else base + "/" + v
PathJoin(base, v) == IF IsAbs(v) THEN v ELSE Str(base.s \o <<"/">> \o v.s)

\* the dataclass defaults of DatabaseConfig and UIConfig
RawDefaults ==
    [database |-> [path |-> Str(<<"data/database/business.db">>)],
     ui |-> [theme |-> Str(<<"dark">>)]]

AppName == Str(<<"Business Intelligence System">>)

\* ApplicationConfig.__post_init__: os.path.join raises TypeError on a path
\* that is no string
PostInitRaises(c) == c.database.path.kind # "str"
PostInit(c) == [c EXCEPT !.database.path = PathJoin(BaseDir, @)]

\* ApplicationConfig()
DefaultConfig == PostInit(RawDefaults)

\* _config_to_dict: asdict(config) without base_dir
ConfigToDict(c) == [database |-> c.database, ui |-> c.ui, app_name |-> AppName]

\* A variant that builds the sections from their defaults.
DictToConfig_Defaults(d) == PostInit(RawDefaults)

\* _dict_to_config: the section dataclasses from the dictionary's sections,
\* then ApplicationConfig(...), whose __post_init__ runs on them
DictToConfig(d) == PostInit([database |-> d.database, ui |-> d.ui])

FileAbsent == [state |-> "absent", content |-> ConfigToDict(RawDefaults)]
FileCorrupt == [state |-> "corrupt", content |-> ConfigToDict(RawDefaults)]
FileWith(d) == [state |-> "valid", content |-> d]

\* How one save_config() goes: the file is written; open() raises and the
\* file stays as it is; or the write fails after open(..., 'w') truncated it.
SaveOutcomes == {"written", "open_fails", "dump_fails"}

\* save_config: the file after it, and its return value
FileAfterSave(file, c, outcome) ==
    CASE outcome = "written" -> FileWith(ConfigToDict(c))
      [] outcome = "open_fails" -> file
      [] outcome = "dump_fails" -> FileCorrupt
SaveReturns(outcome) == outcome = "written"

\* The arguments the calls below are made with.
SectionInputs == {"database", "ui", "app_name", "cache"}
KeyInputs == {"path", "theme", "size"}
ValueInputs == {Str(<<"new.db">>), Str(<<"/", "srv/new.db">>), IntVal(<<"5">>)}

CfgOp(name, ret, section, key, value) ==
    [op |-> name, ret |-> ret, section |-> section, key |-> key, value |-> value]
NoArg == Str(<<>>)

\* update_config: save_config() is called for its effect and True returned
UpdateReturn(outcome) == TRUE

\* A variant that writes the file back on every path.
update_config_SaveOnMiss ==
    /\ \E section \in SectionInputs, key \in KeyInputs, value \in ValueInputs,
              outcome \in SaveOutcomes :
               LET d == ConfigToDict(cfg) IN
               IF section \in DOMAIN d /\ section # "app_name" /\ key \in DOMAIN d[section]
               THEN LET d2 == [d EXCEPT ![section][key] = value] IN
                    IF PostInitRaises([database |-> d2.database, ui |-> d2.ui])
                    THEN /\ lastCfgOp' = CfgOp("update_config", FALSE, section, key, value)
                         /\ UNCHANGED <<cfg, cfgFile>>
                    ELSE /\ cfg' = DictToConfig(d2)
                         /\ cfgFile' = FileAfterSave(cfgFile, cfg', outcome)
                         /\ lastCfgOp' = CfgOp("update_config", UpdateReturn(outcome),
                                               section, key, value)
               ELSE /\ lastCfgOp' = CfgOp("update_config", FALSE, section, key, value)
                    /\ cfgFile' = FileAfterSave(cfgFile, cfg, outcome)
                    /\ UNCHANGED cfg
    /\ OnlyManager

\* update_config(section, key, value)
update_config ==
    /\ \E section \in SectionInputs, key \in KeyInputs, value \in ValueInputs,
              outcome \in SaveOutcomes :
               LET d == ConfigToDict(cfg) IN
               IF section \in DOMAIN d /\ section # "app_name" /\ key \in DOMAIN d[section]
               THEN LET d2 == [d EXCEPT ![section][key] = value] IN
                    IF PostInitRaises([database |-> d2.database, ui |-> d2.ui])
                    THEN \* _dict_to_config raised: except branch
                         /\ lastCfgOp' = CfgOp("update_config", FALSE, section, key, value)
                         /\ UNCHANGED <<cfg, cfgFile>>
                    ELSE /\ cfg' = DictToConfig(d2)
                         /\ cfgFile' = FileAfterSave(cfgFile, cfg', outcome)
                         /\ lastCfgOp' = CfgOp("update_config", UpdateReturn(outcome),
                                               section, key, value)
               ELSE \* no such section or key; a key looked up in the string
                    \* app_name is not found, or found and then not assignable
                    /\ lastCfgOp' = CfgOp("update_config", FALSE, section, key, value)
                    /\ UNCHANGED <<cfg, cfgFile>>
    /\ OnlyManager

\* save_config()
save_config ==
    /\ \E outcome \in SaveOutcomes :
               /\ cfgFile' = FileAfterSave(cfgFile, cfg, outcome)
               /\ lastCfgOp' = CfgOp("save_config", SaveReturns(outcome), "", "", NoArg)
               /\ UNCHANGED cfg
    /\ OnlyManager

\* load_config(): the file's configuration; a new default, saved, when there
\* is no file; the defaults when reading or parsing raises
load_config ==
    /\ \E outcome \in SaveOutcomes, readable \in BOOLEAN :
               /\ IF cfgFile.state = "absent"
                  THEN /\ cfg' = DefaultConfig
                       /\ cfgFile' = FileAfterSave(cfgFile, cfg', outcome)
                  ELSE IF cfgFile.state = "valid" /\ readable
                          /\ ~PostInitRaises([database |-> cfgFile.content.database,
                                              ui |-> cfgFile.content.ui])
                  THEN /\ cfg' = DictToConfig(cfgFile.content)
                       /\ UNCHANGED cfgFile
                  ELSE /\ cfg' = DefaultConfig
                       /\ UNCHANGED cfgFile
               /\ lastCfgOp' = CfgOp("load_config", TRUE, "", "", NoArg)
    /\ OnlyManager

\* ConfigManager.__init__ has run load_config() on whatever file was there.
InitConfig ==
    /\ cfg = DefaultConfig
    /\ cfgFile \in {FileAbsent, FileCorrupt, FileWith(ConfigToDict(DefaultConfig))}
    /\ lastCfgOp = CfgOp("init", TRUE, "", "", NoArg)

\* no ConfigManager call is made
QuietConfig ==
    /\ cfg = DefaultConfig
    /\ cfgFile = FileAbsent
    /\ lastCfgOp = CfgOp("init", TRUE, "", "", NoArg)

NextConfig ==
    \/ update_config
    \/ save_config
    \/ load_config

(***************************************************************************)
(* ui/dashboard.py: Dashboard.load_data and the update_kpis threads        *)
(*                                                                         *)
(* Thread 0 is the UI thread; thread k >= 1 is the k-th thread load_data   *)
(* started. A connection of sqlite3.connect(DB_PATH) keeps the thread that *)
(* created it (check_same_thread is left at its default), and a query      *)
(* issued through it from another thread raises ProgrammingError.          *)
(***************************************************************************)
MaxRefreshes == 3

UIThread == 0
KpiThreads == 1..MaxRefreshes

\* how many update_kpis threads have been started
Started == Cardinality({k \in KpiThreads : kpiPc[k] # "unstarted"})

\* a query issued by thread t through a connection created by thread owner
Use(t, owner) == [thread |-> t, owner |-> owner]

\* load_data: threading.Thread(target=self.update_kpis).start(), then the
\* charts and tables, whose queries run on the calling thread through
\* calculator.conn
load_data(owner) ==
    /\ Started < MaxRefreshes
    /\ kpiPc' = [kpiPc EXCEPT ![Started + 1] = "started"]
    /\ connUses' = connUses \cup {Use(UIThread, owner)}

\* Dashboard.__init__: the calculator and its connection are created on the
\* calling thread, then load_data() runs
Dashboard_init ==
    /\ uiPc = "none"
    /\ uiPc' = "idle"
    /\ connOwner' = UIThread
    /\ load_data(UIThread)
    /\ lastDashOp' = "__init__"
    /\ UNCHANGED <<autoRefresh, kpiShown>>
    /\ OnlyDashboard

\* refresh()
refresh ==
    /\ uiPc = "idle"
    /\ load_data(connOwner)
    /\ lastDashOp' = "refresh"
    /\ UNCHANGED <<uiPc, connOwner, autoRefresh, kpiShown>>
    /\ OnlyDashboard

\* auto_refresh(), run by the after() timer: refresh() when the box is ticked
auto_refresh ==
    /\ uiPc = "idle"
    /\ IF autoRefresh
       THEN load_data(connOwner)
       ELSE UNCHANGED <<kpiPc, connUses>>
    /\ lastDashOp' = "auto_refresh"
    /\ UNCHANGED <<uiPc, connOwner, autoRefresh, kpiShown>>
    /\ OnlyDashboard

\* toggle_auto_refresh(): the check box has changed auto_refresh_var;
\* auto_refresh() runs when it is now ticked
toggle_auto_refresh ==
    /\ uiPc = "idle"
    /\ autoRefresh' = ~autoRefresh
    /\ IF autoRefresh'
       THEN load_data(connOwner)
       ELSE UNCHANGED <<kpiPc, connUses>>
    /\ lastDashOp' = "toggle_auto_refresh"
    /\ UNCHANGED <<uiPc, connOwner, kpiShown>>
    /\ OnlyDashboard

\* update_kpis on thread k: self.calculator.get_sales_summary() issues its
\* query through calculator.conn; sqlite3 raises when the connection was
\* created by another thread
kpi_query(k) ==
    /\ kpiPc[k] = "started"
    /\ connUses' = connUses \cup {Use(k, connOwner)}
    /\ kpiPc' = [kpiPc EXCEPT ![k] = IF connOwner = k THEN "summary" ELSE "raised"]
    /\ UNCHANGED <<uiPc, connOwner, autoRefresh, kpiShown, lastDashOp>>
    /\ OnlyDashboard

\* update_kpis on thread k: the four labels are set from the summary, or the
\* except branch prints the error
kpi_finish(k) ==
    /\ kpiPc[k] \in {"summary", "raised"}
    /\ kpiShown' = IF kpiPc[k] = "summary" THEN kpiShown + 1 ELSE kpiShown
    /\ kpiPc' = [kpiPc EXCEPT ![k] = IF kpiPc[k] = "summary" THEN "shown" ELSE "printed"]
    /\ UNCHANGED <<uiPc, connOwner, autoRefresh, connUses, lastDashOp>>
    /\ OnlyDashboard

\* no Dashboard has been constructed
InitDashboard ==
    /\ uiPc = "none"
    /\ connOwner = UIThread
    /\ autoRefresh = TRUE
    /\ kpiPc = [k \in KpiThreads |-> "unstarted"]
    /\ connUses = {}
    /\ kpiShown = 0
    /\ lastDashOp = "none"

NextDashboard ==
    \/ Dashboard_init
    \/ refresh
    \/ auto_refresh
    \/ toggle_auto_refresh
    \/ \E k \in KpiThreads : kpi_query(k)
    \/ \E k \in KpiThreads : kpi_finish(k)

(***************************************************************************)
(* utils/helpers.py: retry                                                 *)
(***************************************************************************)
MaxAttempts == 3

\* the arguments the decorator is given
DelayInputs == {1, 2}
BackoffInputs == {1, 2}

\* what one invocation of func does: it returns, raises one of the
\* exceptions listed in the decorator, or raises another one
FuncOutcomes == {"returns", "raises_listed", "raises_other"}

NoOut == [from |-> 0, kind |-> "none"]
\* what came out of the wrapper: the result or exception of invocation c
Out(c, kind) == [from |-> c, kind |-> kind]

RECURSIVE CurrentDelay(_)
\* current_delay at the given attempt: delay, times backoff_factor for
\* every sleep so far
CurrentDelay(attempt) ==
    IF attempt = 0 THEN rtDelay ELSE CurrentDelay(attempt - 1) * rtBackoff

\* the wrapper is entered: current_delay = delay, and the for loop over
\* range(max_attempts) starts, or is over at once when the range is empty
retry_call ==
    /\ rtPc \in {"idle", "returned", "raised"}
    /\ rtPc' = IF rtMax > 0 THEN "loop" ELSE "after_loop"
    /\ rtAttempt' = 0
    /\ rtCalls' = 0
    /\ rtSleeps' = <<>>
    /\ rtOut' = NoOut
    /\ UNCHANGED <<rtMax, rtDelay, rtBackoff>>
    /\ OnlyRetry

\* one iteration of the loop: func is invoked; a listed exception is raised
\* again on the last attempt, and is followed by a sleep on the others
retry_attempt ==
    /\ rtPc = "loop"
    /\ rtCalls' = rtCalls + 1
    /\ \E outcome \in FuncOutcomes :
          CASE outcome = "returns" ->
                 /\ rtPc' = "returned"
                 /\ rtOut' = Out(rtCalls', "result")
                 /\ UNCHANGED <<rtAttempt, rtSleeps>>
            [] outcome = "raises_other" ->
                 /\ rtPc' = "raised"
                 /\ rtOut' = Out(rtCalls', "other")
                 /\ UNCHANGED <<rtAttempt, rtSleeps>>
            [] outcome = "raises_listed" ->
                 IF rtAttempt = rtMax - 1
                 THEN /\ rtPc' = "raised"
                      /\ rtOut' = Out(rtCalls', "listed")
                      /\ UNCHANGED <<rtAttempt, rtSleeps>>
                 ELSE /\ rtSleeps' = Append(rtSleeps, CurrentDelay(rtAttempt))
                      /\ rtAttempt' = rtAttempt + 1
                      /\ rtPc' = "loop"
                      /\ UNCHANGED rtOut
    /\ UNCHANGED <<rtMax, rtDelay, rtBackoff>>
    /\ OnlyRetry

\* the statement after the loop: return func(*args, **kwargs), outside any try
retry_after_loop ==
    /\ rtPc = "after_loop"
    /\ rtCalls' = rtCalls + 1
    /\ \E outcome \in FuncOutcomes :
          IF outcome = "returns"
          THEN /\ rtPc' = "returned"
               /\ rtOut' = Out(rtCalls', "result")
          ELSE /\ rtPc' = "raised"
               /\ rtOut' = Out(rtCalls', IF outcome = "raises_listed"
                                         THEN "listed" ELSE "other")
    /\ UNCHANGED <<rtMax, rtDelay, rtBackoff, rtAttempt, rtSleeps>>
    /\ OnlyRetry

\* a function decorated with retry(max_attempts, delay, backoff_factor)
InitRetry ==
    /\ rtMax \in 0..MaxAttempts
    /\ rtDelay \in DelayInputs
    /\ rtBackoff \in BackoffInputs
    /\ rtPc = "idle"
    /\ rtAttempt = 0
    /\ rtCalls = 0
    /\ rtSleeps = <<>>
    /\ rtOut = NoOut

\* no decorated function is called
QuietRetry ==
    /\ rtMax = 0
    /\ rtDelay = 1
    /\ rtBackoff = 1
    /\ rtPc = "idle"
    /\ rtAttempt = 0
    /\ rtCalls = 0
    /\ rtSleeps = <<>>
    /\ rtOut = NoOut

NextRetry ==
    \/ retry_call
    \/ retry_attempt
    \/ retry_after_loop

(***************************************************************************)
(* utils/helpers.py: memoize                                               *)
(***************************************************************************)
MaxCacheSize == 2
MaxTtl == 2
MaxTime == 3

\* ttl=None
NoTtl == -1

\* the arguments the memoized function is called with: 1, 1.0 and 2
ArgInputs == {[type |-> "int", v |-> 1], [type |-> "float", v |-> 1],
              [type |-> "int", v |-> 2]}

\* pickle.dumps((args, frozenset(kwargs.items()))): the pickle of a value
\* holds its type, so equal numbers of different types have different keys
PickleDumps(a) == <<a.type, a.v>>

\* what func returns
ResultInputs == {"r1", "r2"}

\* the tuple (result, timestamp) of a cache entry
Entry(result, timestamp) == [result |-> result, timestamp |-> timestamp]

\* key in cache, and ttl is None or (time.time() - timestamp) < ttl
Fresh(c, key, t) ==
    /\ key \in DOMAIN c
    /\ (ttl = NoTtl \/ t - c[key].timestamp < ttl)

\* A variant that never evicts.
EnforceMaxsize_Never(c, ks) == [cache |-> c, keys |-> ks, evicted |-> FALSE]

\* Enforce maxsize: when cache_keys is longer than maxsize its first key is
\* popped and deleted from the cache if it is there
EnforceMaxsize(c, ks) ==
    IF Len(ks) > maxsize
    THEN LET old_key == Head(ks) IN
         [cache |-> IF old_key \in DOMAIN c THEN Without(c, old_key) ELSE c,
          keys |-> Tail(ks), evicted |-> TRUE]
    ELSE [cache |-> c, keys |-> ks, evicted |-> FALSE]

MemoOp(key, invoked, raised, result, evicted) ==
    [op |-> "call", key |-> key, invoked |-> invoked, raised |-> raised,
     result |-> result, evicted |-> evicted]

\* one call of the memoized function: the cached result when the entry is
\* fresh; else func is invoked and, unless it raises, its result is stored
\* under the key with the time, the key appended to cache_keys, and maxsize
\* enforced
memo_call ==
    /\ \E a \in ArgInputs, r \in ResultInputs, raises \in BOOLEAN :
          LET key == PickleDumps(a) IN
          IF Fresh(cache, key, now)
          THEN /\ lastMemoOp' = MemoOp(key, FALSE, FALSE, cache[key].result, FALSE)
               /\ UNCHANGED <<cache, cache_keys>>
          ELSE IF raises
          THEN /\ lastMemoOp' = MemoOp(key, TRUE, TRUE, "none", FALSE)
               /\ UNCHANGED <<cache, cache_keys>>
          ELSE LET e == EnforceMaxsize(With(cache, key, Entry(r, now)),
                                       Append(cache_keys, key)) IN
               /\ cache' = e.cache
               /\ cache_keys' = e.keys
               /\ lastMemoOp' = MemoOp(key, TRUE, FALSE, r, e.evicted)
    /\ UNCHANGED <<ttl, maxsize, now>>
    /\ OnlyMemo

\* time passes between calls
tick ==
    /\ now < MaxTime
    /\ now' = now + 1
    /\ UNCHANGED <<ttl, maxsize, cache, cache_keys, lastMemoOp>>
    /\ OnlyMemo

\* a function decorated with memoize(ttl, maxsize): cache = {}, cache_keys = []
InitMemo ==
    /\ ttl \in {NoTtl} \cup 0..MaxTtl
    /\ maxsize \in 0..MaxCacheSize
    /\ cache = NoRows
    /\ cache_keys = <<>>
    /\ now = 0
    /\ lastMemoOp = [op |-> "none"]

\* no memoized function is called
QuietMemo ==
    /\ ttl = NoTtl
    /\ maxsize = 0
    /\ cache = NoRows
    /\ cache_keys = <<>>
    /\ now = 0
    /\ lastMemoOp = [op |-> "none"]

NextMemo ==
    \/ memo_call
    \/ tick

(***************************************************************************)
(* Specifications: each takes the steps of one part of the program, from   *)
(* the initial state of that part, the other parts at rest.                *)
(***************************************************************************)
vars == <<dbVars, mlVars, thVars, cfgVars, dashVars, retryVars, memoVars>>

\* the parts of the program helpers.py and the dashboard add, at rest
QuietRest == InitDashboard /\ QuietRetry /\ QuietMemo

InitStore == InitDB /\ QuietML /\ InitThreads /\ QuietConfig /\ QuietRest
Spec == InitStore /\ [][NextDB]_vars

InitQueryStore == InitQueries /\ QuietML /\ InitThreads /\ QuietConfig /\ QuietRest
SpecQueries == InitQueryStore /\ [][NextQueries]_vars

InitPredictor == InitDB /\ InitML /\ InitThreads /\ QuietConfig /\ QuietRest
SpecML == InitPredictor /\ [][NextML]_vars

InitWorkers == InitDB /\ QuietML /\ InitThreads /\ QuietConfig /\ QuietRest
SpecThreads == InitWorkers /\ [][NextThreads]_vars

InitManager == InitDB /\ QuietML /\ InitThreads /\ InitConfig /\ QuietRest
SpecConfig == InitManager /\ [][NextConfig]_vars

InitDash ==
    InitDB /\ QuietML /\ InitThreads /\ QuietConfig /\ InitDashboard
    /\ QuietRetry /\ QuietMemo
SpecDashboard == InitDash /\ [][NextDashboard]_vars

InitRetried ==
    InitDB /\ QuietML /\ InitThreads /\ QuietConfig /\ InitDashboard
    /\ InitRetry /\ QuietMemo
SpecRetry == InitRetried /\ [][NextRetry]_vars

InitMemoized ==
    InitDB /\ QuietML /\ InitThreads /\ QuietConfig /\ InitDashboard
    /\ QuietRetry /\ InitMemo
SpecMemo == InitMemoized /\ [][NextMemo]_vars

(***************************************************************************)
(* Properties of the store (Spec).                                         *)
(***************************************************************************)

\* C1: in every reachable state every sales row has a customer_id that is the
\* id of an existing customer and a product_id that is the id of an existing
\* product.
C1_ReferentialIntegrity ==
    \A s \in SaleIds :
        /\ sales[s].customer_id \in customers
        /\ sales[s].product_id \in ProductIds

\* C2: every connection get_sqlite_connection() returns opens a database
\* that has at least one table.
C2_ConnectionHasTables ==
    lastOp.op = "get_sqlite_connection" => connTables # {}

\* C3: after create_database() the five tables exist, and when they existed
\* before the call every row of every table is as it was.
C3_CreateDatabaseIdempotent ==
    [][lastOp'.op = "create_database" =>
          /\ AllTables \subseteq tables'
          /\ (AllTables \subseteq tables =>
                /\ tables' = tables
                /\ products' = products
                /\ customers' = customers
                /\ sales' = sales)]_vars

\* create_database() has run on a database that holds rows.
C3_Witness ==
    /\ lastOp.op = "create_database"
    /\ SaleIds # {}
    /\ ProductIds # {}
    /\ customers # {}

(***************************************************************************)
(* Properties of the queries (SpecQueries).                                *)
(***************************************************************************)

\* C4: the record get_sales_summary() returns has a total_revenue that is a
\* number, whatever the sales table holds.
C4_TotalRevenueIsNumber ==
    (lastOp.op = "get_sales_summary" /\ lastOp.ok) =>
        /\ summary.valid
        /\ ~summary.total_revenue.null

RECURSIVE RevenueUpTo(_, _)
\* the amounts of the sales 1..n of product p, added up in id order
RevenueUpTo(p, n) ==
    IF n = 0 THEN 0
    ELSE (IF n \in SaleIds /\ sales[n].product_id = p THEN sales[n].amount ELSE 0)
         + RevenueUpTo(p, n - 1)

ProductsSold == {p \in ProductIds : \E s \in SaleIds : sales[s].product_id = p}

\* C5: get_top_products(limit) returns at most limit rows, one row per
\* product that has a sale (up to the limit), each with the sum of the
\* product's sale amounts as total_revenue, in non-increasing order of
\* total_revenue.
C5_TopProducts ==
    lastOp.op = "get_top_products" =>
        LET r == topProducts IN
        /\ Len(r) <= lastOp.limit
        /\ Len(r) = Min(lastOp.limit, Cardinality(ProductsSold))
        /\ \A i \in 1..Len(r) :
              /\ r[i].id \in ProductsSold
              /\ r[i].total_revenue = RevenueUpTo(r[i].id, SetMax(SaleIds))
        /\ \A i, j \in 1..Len(r) : i # j => r[i].id # r[j].id
        /\ \A i, j \in 1..Len(r) : i < j => r[i].total_revenue >= r[j].total_revenue

\* Two products have sales, the one with the larger id earns more, and a
\* limit of 1 keeps that one alone.
C5_Witness ==
    /\ lastOp.op = "get_top_products"
    /\ lastOp.limit = 1
    /\ ProductsSold = {1, 2}
    /\ RevenueUpTo(2, SetMax(SaleIds)) > RevenueUpTo(1, SetMax(SaleIds))
    /\ Len(topProducts) = 1
    /\ topProducts[1].id = 2
(***************************************************************************)
(* Properties of the sales predictor (SpecML).                             *)
(***************************************************************************)

\* C6: predict_sales opens the model file only when it exists; when the file
\* was absent at the check, train_models has run and returned before the
\* file is opened; whenever train_models has returned both model files
\* exist; when the file was present predict_sales does not retrain; and the
\* file exists when predict_sales returns.
C6_PredictLoadsExistingModel ==
    /\ mlPc = "p_load" => rfFile
    /\ (mlPc \in {"p_load", "p_predict", "p_returned"} /\ ~foundAtCheck) =>
          (retrained /\ trainPc = "returned")
    /\ trainPc = "returned" => (lrFile /\ rfFile)
    /\ (mlPc \in {"p_load", "p_predict", "p_returned"} /\ foundAtCheck) => ~retrained
    /\ mlPc = "p_returned" => rfFile

\* predict_sales found no model file, trained on enough rows and returned.
C6_Witness ==
    /\ mlPc = "p_returned"
    /\ ~foundAtCheck
    /\ retrained
    /\ rfFile
(***************************************************************************)
(* Properties of the worker threads (SpecThreads).                         *)
(***************************************************************************)

\* C7: _instance is assigned at most once, and any two constructions
\* ThreadSafeDB() that have returned, on whatever threads, returned the same
\* instance.
C7_Singleton ==
    /\ assigned <= 1
    /\ \A t, u \in Threads :
          (wDb[t] # NoObject /\ wDb[u] # NoObject) => wDb[t] = wDb[u]

\* C8: a worker that has ended has invoked callback exactly once.
C8_CallbackExactlyOnce ==
    \A t \in Threads :
        wPc[t] \in {"done", "died"} => Len(cbCalls[t]) = 1
(***************************************************************************)
(* Properties of the configuration manager (SpecConfig).                   *)
(***************************************************************************)
UpdateReturnedTrue == lastCfgOp.op = "update_config" /\ lastCfgOp.ret

\* C9: update_config returns True only if the new value is in the in-memory
\* configuration and written to the configuration file.
C9_TrueOnlyIfSaved ==
    UpdateReturnedTrue =>
        /\ cfgFile.state = "valid"
        /\ cfgFile.content[lastCfgOp.section][lastCfgOp.key]
              = cfg[lastCfgOp.section][lastCfgOp.key]

\* C10 as stated: after update_config(section, key, value) returns True the
\* configuration's section.key equals exactly value.
C10_StoresExactValue ==
    UpdateReturnedTrue => cfg[lastCfgOp.section][lastCfgOp.key] = lastCfgOp.value

\* C10, amended: section.key equals value, except for a path-valued key given
\* a relative path, where it is the base directory, "/" and the value.
C10_StoresValueOrJoinedPath ==
    UpdateReturnedTrue =>
        LET stored == cfg[lastCfgOp.section][lastCfgOp.key]
            value == lastCfgOp.value
        IN IF lastCfgOp.section = "database" /\ lastCfgOp.key = "path"
              /\ ~(Len(value.s) > 0 /\ value.s[1] = "/")
           THEN stored = Str(<<"/", "app", "/">> \o value.s)
           ELSE stored = value

\* update_config stored a relative database.path under the base directory.
C10_Witness ==
    /\ UpdateReturnedTrue
    /\ lastCfgOp.section = "database"
    /\ lastCfgOp.key = "path"
    /\ lastCfgOp.value = Str(<<"new.db">>)
    /\ cfg.database.path = Str(<<"/", "app", "/", "new.db">>)

\* the section and key of a call name no value of the configuration: the
\* section is no key of the configuration, or the key is none of the section
NoSuchKey(c, section, key) ==
    LET d == ConfigToDict(c) IN
    \/ section \notin DOMAIN d
    \/ key \notin (IF section = "app_name" THEN {} ELSE DOMAIN d[section])

\* C11: update_config called with a section that is not in the configuration,
\* or with a key that is not in that section, returns False and leaves the
\* in-memory configuration and the configuration file as they were.
C11_UnknownKeyLeavesAll ==
    [][(lastCfgOp'.op = "update_config"
         /\ NoSuchKey(cfg, lastCfgOp'.section, lastCfgOp'.key)) =>
          /\ ~lastCfgOp'.ret
          /\ cfg' = cfg
          /\ cfgFile' = cfgFile]_vars

\* update_config has returned False for a key the section ui does not have
\* and for a section the configuration does not have, on a written file.
C11_Witness ==
    /\ lastCfgOp.op = "update_config"
    /\ ~lastCfgOp.ret
    /\ NoSuchKey(cfg, lastCfgOp.section, lastCfgOp.key)
    /\ lastCfgOp.section = "ui"
    /\ lastCfgOp.key = "size"
    /\ cfgFile.state = "valid"
    /\ cfg # DefaultConfig

\* C12: load_config leaves a configuration in the manager: the file's when
\* the file exists and is read and parsed, a default that is then in the file
\* when there was no file, and the defaults when reading or parsing fails,
\* the file then being as it was.
C12_LoadConfigOutcome ==
    [][lastCfgOp'.op = "load_config" =>
          /\ DOMAIN cfg' = {"database", "ui"}
          /\ CASE cfgFile.state = "absent" ->
                     /\ cfg' = DefaultConfig
                     /\ cfgFile' = FileWith(ConfigToDict(DefaultConfig))
                [] cfgFile.state = "valid" ->
                     /\ cfg' \in {DictToConfig(cfgFile.content), DefaultConfig}
                     /\ cfgFile' = cfgFile
                [] cfgFile.state = "corrupt" ->
                     /\ cfg' = DefaultConfig
                     /\ cfgFile' = cfgFile]_vars

(***************************************************************************)
(* Properties of save_sale (Spec).                                         *)
(***************************************************************************)

\* C16: save_sale is all-or-nothing: a run that does not report success
\* leaves the sales and the products as they were, and a run that reports
\* success has added one sale row and taken its quantity from the stock of
\* its product.
C16_SaveSaleAllOrNothing ==
    [][lastOp'.op = "save_sale" =>
          IF lastOp'.ok
          THEN \E id \in DOMAIN sales' \ DOMAIN sales :
                  /\ DOMAIN sales' = DOMAIN sales \cup {id}
                  /\ \A p \in ProductIds :
                        products'[p].stock =
                           IF p = sales'[id].product_id
                           THEN products[p].stock - sales'[id].quantity
                           ELSE products[p].stock
          ELSE /\ sales' = sales
               /\ products' = products]_vars

(***************************************************************************)
(* Properties of the dashboard threads (SpecDashboard).                    *)
(***************************************************************************)

\* C17: every query is issued through a connection created by the thread
\* that issues it; in particular each update_kpis thread issues its query
\* through a connection created on that thread, not on the UI thread.
C17_ConnectionThreadAffinity ==
    \A u \in connUses : u.owner = u.thread

(***************************************************************************)
(* Properties of retry (SpecRetry).                                        *)
(***************************************************************************)

\* C13: a call of a function wrapped by retry(max_attempts=n), n >= 0,
\* invokes the function at most n times; what it returns is the result of
\* the last invocation made, every invocation before it having raised a
\* listed exception and been followed by a sleep; and a listed exception
\* comes out only of invocation n, after n - 1 sleeps.
C13_RetryAtMostN ==
    /\ rtCalls <= rtMax
    /\ rtPc = "returned" =>
          /\ rtOut = Out(rtCalls, "result")
          /\ Len(rtSleeps) = rtCalls - 1
    /\ (rtPc = "raised" /\ rtOut.kind = "listed") =>
          /\ rtCalls = rtMax
          /\ rtOut.from = rtMax
          /\ Len(rtSleeps) = rtMax - 1

(***************************************************************************)
(* Properties of memoize (SpecMemo).                                       *)
(***************************************************************************)

\* C14: after every call of a memoized function, whatever the calls before
\* it and whatever ttl, the cache holds at most maxsize entries.
C14_CacheAtMostMaxsize ==
    Cardinality(DOMAIN cache) <= maxsize

\* With a ttl, a cache of two entries is full and the last call, which
\* invoked the function, made the cache drop the oldest key.
C14_Witness ==
    /\ lastMemoOp.op = "call"
    /\ lastMemoOp.invoked
    /\ lastMemoOp.evicted
    /\ ttl # NoTtl
    /\ maxsize = 2
    /\ Cardinality(DOMAIN cache) = 2

\* C15: a memoized call returns the cached result without invoking the
\* function only if an entry for the arguments exists and ttl is None or the
\* entry's age is strictly less than ttl; otherwise the function is invoked
\* and, when it returns, the cache holds its result for the arguments with
\* the time of the call.
C15_CachedOnlyIfFresh ==
    [][(lastMemoOp'.op = "call" /\ now' = now) =>
          LET key == lastMemoOp'.key
              fresh == /\ key \in DOMAIN cache
                       /\ (ttl = NoTtl \/ now - cache[key].timestamp < ttl)
          IN /\ ~lastMemoOp'.invoked =>
                   (fresh /\ lastMemoOp'.result = cache[key].result)
             /\ ~fresh =>
                   /\ lastMemoOp'.invoked
                   /\ ~lastMemoOp'.raised =>
                         /\ key \in DOMAIN cache'
                         /\ cache'[key] = Entry(lastMemoOp'.result, now)]_vars
====
